---- MODULE Spec2Model ----
(***************************************************************************)
(* Grover search for the fixed predicate of oracle.py, with the classical *)
(* counter of counting_grover.py and the oracle test of tests_oracle.py.  *)
(*                                                                         *)
(* Amplitudes.  Every gate the circuits use (X, H, Z, multi-controlled X) *)
(* is a real matrix with entries in {0, +1, -1} up to one factor 1/sqrt 2 *)
(* per H.  A state vector is therefore kept exactly as a record           *)
(*     [a |-> integer vector, h |-> natural]                              *)
(* that stands for the real vector a / (sqrt 2)^h.  Basis index i has     *)
(* qubit q in bit q of i (little-endian, as in Qiskit).                   *)
(***************************************************************************)
EXTENDS Integers, Sequences, FiniteSets, TLC

VARIABLES entry, pc, oracle, n_data, K, r, r_main, z, qc, ip, st, log,
          counts, shots_done, err, gs_calls

vars == <<entry, pc, oracle, n_data, K, r, r_main, z, qc, ip, st, log,
          counts, shots_done, err, gs_calls>>

(***************************************************************************)
(* Bounds of the model.                                                    *)
(***************************************************************************)
\* largest n_data of a direct call of grover_search
MaxNData == 4
\* largest n of the make_diffuser runs
MaxDiffuserN == 3
\* number of shots sampled in the model (main passes 4096)
Shots == 2
\* direct calls of grover_search take K from -NegK .. 2^n_data
NegK == 1

(***************************************************************************)
(* Bits and integers.                                                      *)
(***************************************************************************)
RECURSIVE Pow2(_)
Pow2(n) == IF n <= 0 THEN 1 ELSE 2 * Pow2(n - 1)

\* (n >> q) & 1
Bit(n, q) == (n \div Pow2(q)) % 2

FlipBit(i, q) == IF Bit(i, q) = 0 THEN i + Pow2(q) ELSE i - Pow2(q)

\* Python list [b0 .. b_{width-1}]; element i of the list is at i+1 here
int_to_bits_le(n, width) == [i \in 1..width |-> Bit(n, i - 1)]

\* format(n, "0{w}b"): w characters, most significant first
bits(n, w) == [i \in 1..w |-> Bit(n, w - i)]

\* "".join(str(b) for b in reversed(bits_le))
Reversed(s) == [i \in 1..Len(s) |-> s[Len(s) + 1 - i]]

(***************************************************************************)
(* Circuits: a qubit count and an ordered list of operations.  An          *)
(* operation names its kind and its qubits; an mcx lists its controls and  *)
(* then its target; a measure lists the qubit and then the classical bit.  *)
(***************************************************************************)
Op(kind, qs) == [kind |-> kind, q |-> qs]
XGate(q) == Op("x", <<q>>)
HGate(q) == Op("h", <<q>>)
ZGate(q) == Op("z", <<q>>)
MCXGate(qs) == Op("mcx", qs)
Measure(q, c) == Op("measure", <<q, c>>)

QuantumCircuit(n) == [nq |-> n, ops |-> <<>>]

\* QuantumCircuit.compose raises CircuitError on a qubit list of the wrong
\* length or a circuit wider than its destination
ComposeFails(c, other, qubits) ==
    \/ Len(qubits) # other.nq
    \/ other.nq > c.nq

\* qc.compose(other, qubits=qubits, inplace=True): local qubit j of other
\* goes to qubits[j]
Compose(c, other, qubits) ==
    [c EXCEPT !.ops = @ \o
        [k \in 1..Len(other.ops) |->
            IF other.ops[k].kind = "measure"
            THEN other.ops[k]
            ELSE Op(other.ops[k].kind,
                    [j \in 1..Len(other.ops[k].q) |->
                        qubits[other.ops[k].q[j] + 1]])]]

\* qc.compose(other, inplace=True): onto the first qubits, in order
FirstQubits(n) == [j \in 1..n |-> j - 1]

(***************************************************************************)
(* oracle.py                                                               *)
(***************************************************************************)
\* variant: the second clause complements q0 again instead of q1
makeOracleSameClause ==
    [nq |-> 4,
     ops |-> << XGate(3), HGate(3),
                XGate(0), MCXGate(<<2, 1, 0, 3>>), XGate(0),
                XGate(0), MCXGate(<<2, 1, 0, 3>>), XGate(0),
                HGate(3), XGate(3) >>]

\* variant: the ancilla is not brought back by the closing H and X
makeOracleNoUncompute ==
    [nq |-> 4,
     ops |-> << XGate(3), HGate(3),
                XGate(0), MCXGate(<<2, 1, 0, 3>>), XGate(0),
                XGate(1), MCXGate(<<2, 1, 0, 3>>), XGate(1) >>]

makeOracle ==
    [nq |-> 4,
     ops |-> << XGate(3), HGate(3),
                XGate(0), MCXGate(<<2, 1, 0, 3>>), XGate(0),
                XGate(1), MCXGate(<<2, 1, 0, 3>>), XGate(1),
                HGate(3), XGate(3) >>]

\* spec(z) = (z2 /\ z1 /\ ~z0) \/ (z2 /\ ~z1 /\ z0), the docstring of oracle.py
SpecPredicate(zz) ==
    \/ Bit(zz, 2) = 1 /\ Bit(zz, 1) = 1 /\ Bit(zz, 0) = 0
    \/ Bit(zz, 2) = 1 /\ Bit(zz, 1) = 0 /\ Bit(zz, 0) = 1

\* The oracle argument of estimate_K_classical and grover_search: the fixed
\* oracle, and a 4-qubit circuit that marks nothing (the K = 0 case).
OracleInputs == { makeOracle, QuantumCircuit(4) }

(***************************************************************************)
(* The state vector simulator.                                             *)
(***************************************************************************)
InitState(m) == [a |-> [i \in 0..(Pow2(m) - 1) |-> IF i = 0 THEN 1 ELSE 0],
                 h |-> 0]

AllEven(a) == \A i \in DOMAIN a : a[i] % 2 = 0

\* a / (sqrt 2)^h = (a/2) / (sqrt 2)^(h-2): the same vector, smaller numbers
RECURSIVE Reduce(_)
Reduce(s) == IF s.h >= 2 /\ AllEven(s.a)
             THEN Reduce([a |-> [i \in DOMAIN s.a |-> s.a[i] \div 2],
                          h |-> s.h - 2])
             ELSE s

ApplyX(s, q) == [s EXCEPT !.a = [i \in DOMAIN s.a |-> s.a[FlipBit(i, q)]]]

ApplyZ(s, q) == [s EXCEPT !.a = [i \in DOMAIN s.a |->
                    IF Bit(i, q) = 1 THEN 0 - s.a[i] ELSE s.a[i]]]

\* variant: the factor 1/sqrt 2 is left out
ApplyHNoScale(s, q) ==
    [s EXCEPT !.a = [i \in DOMAIN s.a |->
                        IF Bit(i, q) = 0
                        THEN s.a[i] + s.a[FlipBit(i, q)]
                        ELSE s.a[FlipBit(i, q)] - s.a[i]]]

\* H = (1/sqrt 2) [[1, 1], [1, -1]]
ApplyH(s, q) ==
    Reduce([a |-> [i \in DOMAIN s.a |->
                        IF Bit(i, q) = 0
                        THEN s.a[i] + s.a[FlipBit(i, q)]
                        ELSE s.a[FlipBit(i, q)] - s.a[i]],
            h |-> s.h + 1])

\* flips the target (last qubit of qs) where every control is 1
ApplyMCX(s, qs) ==
    [s EXCEPT !.a = [i \in DOMAIN s.a |->
        IF \A c \in 1..(Len(qs) - 1) : Bit(i, qs[c]) = 1
        THEN s.a[FlipBit(i, qs[Len(qs)])]
        ELSE s.a[i]]]

ApplyGate(s, op) ==
    CASE op.kind = "x" -> ApplyX(s, op.q[1])
      [] op.kind = "h" -> ApplyH(s, op.q[1])
      [] op.kind = "z" -> ApplyZ(s, op.q[1])
      [] op.kind = "mcx" -> ApplyMCX(s, op.q)
      [] OTHER -> s

\* sv[idx].real < -0.5, i.e. a / (sqrt 2)^h < -1/2
AmpBelowMinusHalf(s, idx) == s.a[idx] < 0 /\ 4 * s.a[idx] * s.a[idx] > Pow2(s.h)


\* the outcome probabilities of the data bits, as numerators over 2^h:
\* the ancilla (qubit n) is summed out
ProbNum(s, n, d) == s.a[d] * s.a[d] + s.a[d + Pow2(n)] * s.a[d + Pow2(n)]

(***************************************************************************)
(* counting_grover.py: make_diffuser                                       *)
(***************************************************************************)
HLayer(n) == [i \in 1..n |-> HGate(i - 1)]
XLayer(n) == [i \in 1..n |-> XGate(i - 1)]

\* the reflection about |1...1>: H on the target, Z (n = 1) or MCX, H again
DiffuserCore(n) ==
    << HGate(n - 1) >>
    \o (IF n = 1 THEN << ZGate(n - 1) >>
                 ELSE << MCXGate([j \in 1..n |-> j - 1]) >>)
    \o << HGate(n - 1) >>

\* variant: the two X layers are left out
make_diffuser_noX(n) ==
    [nq |-> n, ops |-> HLayer(n) \o DiffuserCore(n) \o HLayer(n)]

make_diffuser(n) ==
    [nq |-> n,
     ops |-> HLayer(n) \o XLayer(n) \o DiffuserCore(n) \o XLayer(n) \o HLayer(n)]

(***************************************************************************)
(* counting_grover.py: the iteration count                                 *)
(***************************************************************************)
MaxOf(x, y) == IF x >= y THEN x ELSE y

\* m <= (pi/4) * sqrt(N/K)  iff  16 K m^2 <= pi^2 N, with
\* 9.8696 < pi^2 < 9.8697; no 16 K m^2 / N of the model lies in between
LeQuarterPiSqrt(m, N, k) == 16 * k * m * m * 10000 <= 98696 * N

\* int(math.floor((math.pi / 4.0) * math.sqrt(N / K))), for K >= 1
RECURSIVE FloorFrom(_, _, _)
FloorFrom(m, N, k) == IF LeQuarterPiSqrt(m + 1, N, k)
                      THEN FloorFrom(m + 1, N, k)
                      ELSE m

\* variant: without the floor of one round
IterationCountNoMax(N, k) == FloorFrom(0, N, k)

IterationCount(N, k) == MaxOf(1, FloorFrom(0, N, k))

(***************************************************************************)
(* counting_grover.py: the circuit of grover_search                        *)
(***************************************************************************)
DataQubits(n) == [j \in 1..n |-> j - 1]
DataAndAncilla(n) == [j \in 1..(n + 1) |-> j - 1]

\* lines 113-120: registers, and H on every data qubit
GroverPrepared(n) == [nq |-> n + 1, ops |-> HLayer(n)]

\* variant: the diffuser is composed before the oracle
GroverRoundDiffuserFirst(c, orc, diffuser, n) ==
    Compose(Compose(c, diffuser, DataQubits(n)), orc, DataAndAncilla(n))

\* one pass of the loop body, lines 127-129
GroverRound(c, orc, diffuser, n) ==
    Compose(Compose(c, orc, DataAndAncilla(n)), diffuser, DataQubits(n))

RECURSIVE GroverLoop(_, _, _, _, _)
GroverLoop(c, orc, diffuser, n, k) ==
    IF k = 0 THEN c
    ELSE GroverLoop(GroverRound(c, orc, diffuser, n), orc, diffuser, n, k - 1)

\* lines 132-133
MeasureLayer(n) == [i \in 1..n |-> Measure(i - 1, i - 1)]

GroverCircuit(orc, n, rr) ==
    [nq |-> n + 1,
     ops |-> GroverLoop(GroverPrepared(n), orc, make_diffuser(n), n, rr).ops
             \o MeasureLayer(n)]

\* the key of one measured outcome in the counts dictionary: classical bit
\* n-1 first, classical bit 0 last
MeasuredQubit(c, cb) ==
    CHOOSE q \in 0..(c.nq - 1) :
        \E k \in 1..Len(c.ops) : c.ops[k] = Measure(q, cb)

CountsKey(c, n, idx) == [j \in 1..n |-> Bit(idx, MeasuredQubit(c, n - j))]


(***************************************************************************)
(* The programs.  entry names what was started:                            *)
(*   "main"          counting_grover.main                                  *)
(*   "tests"         tests_oracle.main                                     *)
(*   "grover_search" a direct call grover_search(oracle, n_data, K, ..)    *)
(*   "make_diffuser" make_diffuser(n) run on the uniform superposition     *)
(***************************************************************************)
NoCircuit == QuantumCircuit(0)
NoCounts == [s \in {} |-> 0]

\* n_data of main (line 150) and the width of the test loop (lines 23-25)
NDataMain == 3

Start(e, p, o, n, k, calls) ==
    /\ entry = e /\ pc = p /\ oracle = o /\ n_data = n /\ K = k
    /\ gs_calls = calls
    /\ r = 0 /\ r_main = 0 /\ z = 0 /\ qc = NoCircuit /\ ip = 1
    /\ st = InitState(0) /\ log = <<>> /\ counts = NoCounts
    /\ shots_done = 0 /\ err = "none"

\* main builds its oracle with makeOracle() (line 154).  Its run on the
\* circuit that marks nothing stands for the counter returning K = 0, an
\* outcome lines 164-167 handle and the fixed oracle never produces.
Init ==
    \/ \E o \in OracleInputs : Start("main", "main", o, NDataMain, 0, <<>>)
    \/ Start("tests", "T_loop", makeOracle, NDataMain, 0, <<>>)
    \/ \E o \in OracleInputs : \E n \in 0..MaxNData :
         \E k \in (0 - NegK)..Pow2(n) :
            Start("grover_search", "gs_check", o, n, k, <<k>>)
    \/ \E n \in 1..MaxDiffuserN :
            Start("make_diffuser", "diff", NoCircuit, n, 0, <<>>)

RunStates == {"K_run", "T_run", "gs_run", "D_run"}

Finished == ip > Len(qc.ops)

\* the simulator applies the next gate of the circuit it was given
Step ==
    /\ pc \in RunStates
    /\ ~Finished
    /\ qc.ops[ip].kind # "measure"
    /\ st' = ApplyGate(st, qc.ops[ip])
    /\ ip' = ip + 1
    /\ UNCHANGED <<entry, pc, oracle, n_data, K, r, r_main, z, qc, log,
                   counts, shots_done, err, gs_calls>>

Raise(e) == pc' = "raised" /\ err' = e

(***************************************************************************)
(* counting_grover.py: estimate_K_classical                                *)
(***************************************************************************)
\* lines 29-34: X on data qubit i where bit i of z is 1
PrepareBasis(c, bits_le) ==
    [c EXCEPT !.ops = SelectSeq([i \in 1..Len(bits_le) |-> XGate(i - 1)],
                                LAMBDA g : bits_le[g.q[1] + 1] = 1)]

\* line 43
AmplitudeIndex(zz) == zz

\* variant: the comparison is turned round
UnsafeInverted(s, idx) == ~AmpBelowMinusHalf(s, idx)

\* line 46
Unsafe(s, idx) == AmpBelowMinusHalf(s, idx)

\* lines 27-37, one pass: a fresh register, |z> on the data, the oracle
KBuild ==
    /\ pc = "K_loop"
    /\ z < Pow2(n_data)
    /\ LET fresh == PrepareBasis(QuantumCircuit(n_data + 1),
                                 int_to_bits_le(z, n_data))
       IN  IF ComposeFails(fresh, oracle, FirstQubits(oracle.nq))
           THEN /\ Raise("CircuitError")
                /\ UNCHANGED <<qc, st, ip>>
           ELSE /\ qc' = Compose(fresh, oracle, FirstQubits(oracle.nq))
                /\ st' = InitState(n_data + 1)
                /\ ip' = 1
                /\ pc' = "K_run"
                /\ err' = err
    /\ UNCHANGED <<entry, oracle, n_data, K, r, r_main, z, log, counts,
                   shots_done, gs_calls>>

\* lines 40-54: read the amplitude at index z, classify, log, next z
KRead ==
    /\ pc = "K_run"
    /\ Finished
    /\ LET unsafe == Unsafe(st, AmplitudeIndex(z))
       IN  /\ K' = IF unsafe THEN K + 1 ELSE K
           /\ log' = Append(log, [tag |-> "K",
                                  z |-> Reversed(int_to_bits_le(z, n_data)),
                                  unsafe |-> unsafe])
    /\ z' = z + 1
    /\ pc' = "K_loop"
    /\ UNCHANGED <<entry, oracle, n_data, r, r_main, qc, ip, st, counts,
                   shots_done, err, gs_calls>>

\* line 56
KReturn ==
    /\ pc = "K_loop"
    /\ z = Pow2(n_data)
    /\ pc' = "main_after_K"
    /\ UNCHANGED <<entry, oracle, n_data, K, r, r_main, z, qc, ip, st, log,
                   counts, shots_done, err, gs_calls>>

(***************************************************************************)
(* counting_grover.py: main                                                *)
(***************************************************************************)
\* lines 150-159: the log is opened and estimate_K_classical is called
MainStart ==
    /\ pc = "main"
    /\ log' = Append(log, [tag |-> "Init"])
    /\ K' = 0
    /\ z' = 0
    /\ pc' = "K_loop"
    /\ UNCHANGED <<entry, oracle, n_data, r, r_main, qc, ip, st, counts,
                   shots_done, err, gs_calls>>

\* variant: the K = 0 exit never taken
NoMarkedStatesNever(k) == k < 0

\* line 164
NoMarkedStates(k) == k = 0

\* line 161
MainIterationCount(N, k) == IF k > 0 THEN IterationCount(N, k) ELSE 0

\* lines 160-169: r, the K = 0 exit, the call of grover_search
MainAfterK ==
    /\ pc = "main_after_K"
    /\ r_main' = MainIterationCount(Pow2(n_data), K)
    /\ IF NoMarkedStates(K)
       THEN /\ log' = log \o << [tag |-> "KSummary", K |-> K, r |-> r_main'],
                                [tag |-> "AllSafe"] >>
            /\ pc' = "done"
            /\ gs_calls' = gs_calls
       ELSE /\ log' = Append(log, [tag |-> "KSummary", K |-> K, r |-> r_main'])
            /\ pc' = "gs_check"
            /\ gs_calls' = Append(gs_calls, K)
    /\ UNCHANGED <<entry, oracle, n_data, K, r, z, qc, ip, st, counts,
                   shots_done, err>>

\* line 178: the keys of the four largest counts
TopSets(c, k) ==
    { T \in SUBSET DOMAIN c :
        /\ Cardinality(T) = (IF Cardinality(DOMAIN c) < k
                             THEN Cardinality(DOMAIN c) ELSE k)
        /\ \A s \in T : \A t \in (DOMAIN c) \ T : c[s] >= c[t] }

\* lines 171-182
MainReport ==
    /\ pc = "main_report"
    /\ \E top \in TopSets(counts, 4) :
          log' = log \o << [tag |-> "Outcomes", counts |-> counts],
                           [tag |-> "Expected",
                            set |-> { <<1, 1, 0>>, <<1, 0, 1>> }],
                           [tag |-> "Top4", set |-> top],
                           [tag |-> "Done"] >>
    /\ pc' = "done"
    /\ UNCHANGED <<entry, oracle, n_data, K, r, r_main, z, qc, ip, st,
                   counts, shots_done, err, gs_calls>>

(***************************************************************************)
(* counting_grover.py: grover_search                                       *)
(***************************************************************************)
\* variant: only negative K refused
InvalidSearchCountStrict(k) == k < 0

\* line 108
InvalidSearchCount(k) == k <= 0

\* lines 108-111
GSCheck ==
    /\ pc = "gs_check"
    /\ IF InvalidSearchCount(K)
       THEN /\ Raise("ValueError: K must be >= 1 for Grover search.")
            /\ r' = r
       ELSE IF K = 0
       THEN /\ Raise("ZeroDivisionError")
            /\ r' = r
       ELSE /\ r' = IterationCount(Pow2(n_data), K)
            /\ pc' = "gs_build"
            /\ err' = err
    /\ UNCHANGED <<entry, oracle, n_data, K, r_main, z, qc, ip, st, log,
                   counts, shots_done, gs_calls>>

\* lines 113-133: the circuit; make_diffuser refuses n_data < 1 (line 63),
\* compose refuses an oracle that does not fit the register
GSBuild ==
    /\ pc = "gs_build"
    /\ IF n_data < 1
       THEN /\ Raise("ValueError: n_data must be >= 1")
            /\ qc' = GroverPrepared(n_data)
            /\ UNCHANGED <<st, ip>>
       ELSE IF r >= 1 /\ ComposeFails(GroverPrepared(n_data), oracle,
                                      DataAndAncilla(n_data))
       THEN /\ Raise("CircuitError")
            /\ qc' = GroverPrepared(n_data)
            /\ UNCHANGED <<st, ip>>
       ELSE /\ qc' = GroverCircuit(oracle, n_data, r)
            /\ st' = InitState(n_data + 1)
            /\ ip' = 1
            /\ pc' = "gs_run"
            /\ err' = err
    /\ UNCHANGED <<entry, oracle, n_data, K, r, r_main, z, log, counts,
                   shots_done, gs_calls>>

\* lines 135-138, one shot: an outcome of nonzero probability is drawn from
\* the final state and counted under its key
GSSample ==
    /\ pc = "gs_run"
    /\ ~Finished
    /\ qc.ops[ip].kind = "measure"
    /\ shots_done < Shots
    /\ \E idx \in DOMAIN st.a :
         /\ st.a[idx] # 0
         /\ LET key == CountsKey(qc, n_data, idx)
            IN  counts' = [s \in (DOMAIN counts) \cup {key} |->
                             IF s \in DOMAIN counts
                             THEN (IF s = key THEN counts[s] + 1 ELSE counts[s])
                             ELSE 1]
    /\ shots_done' = shots_done + 1
    /\ UNCHANGED <<entry, pc, oracle, n_data, K, r, r_main, z, qc, ip, st,
                   log, err, gs_calls>>

\* lines 140-147: the summary is logged and the counts are returned
GSReturn ==
    /\ pc = "gs_run"
    /\ ~Finished
    /\ qc.ops[ip].kind = "measure"
    /\ shots_done = Shots
    /\ log' = Append(log, [tag |-> "Grover", N |-> Pow2(n_data), K |-> K,
                           r |-> r, shots |-> shots_done, top |-> counts])
    /\ pc' = IF entry = "main" THEN "main_report" ELSE "done"
    /\ UNCHANGED <<entry, oracle, n_data, K, r, r_main, z, qc, ip, st,
                   counts, shots_done, err, gs_calls>>

(***************************************************************************)
(* tests_oracle.py: main                                                   *)
(***************************************************************************)
\* lines 29-31: character 2 of zstr decides q0, character 1 q1, character 0 q2
PrepareFromString(c, zstr) ==
    [c EXCEPT !.ops =
        (IF zstr[3] = 1 THEN << XGate(0) >> ELSE << >>)
        \o (IF zstr[2] = 1 THEN << XGate(1) >> ELSE << >>)
        \o (IF zstr[1] = 1 THEN << XGate(2) >> ELSE << >>)]

\* line 42: z & 0b111
TestIndex(zz) == zz % 8

\* lines 23-34
TBuild ==
    /\ pc = "T_loop"
    /\ z < 8
    /\ qc' = Compose(PrepareFromString(QuantumCircuit(4), bits(z, 3)),
                     oracle, FirstQubits(oracle.nq))
    /\ st' = InitState(4)
    /\ ip' = 1
    /\ pc' = "T_run"
    /\ UNCHANGED <<entry, oracle, n_data, K, r, r_main, z, log, counts,
                   shots_done, err, gs_calls>>

\* lines 37-49
TRead ==
    /\ pc = "T_run"
    /\ Finished
    /\ log' = Append(log, [tag |-> "T",
                           z |-> bits(z, 3),
                           expected |-> bits(z, 3) \in { <<1, 1, 0>>, <<1, 0, 1>> },
                           minus |-> AmpBelowMinusHalf(st, TestIndex(z))])
    /\ z' = z + 1
    /\ pc' = "T_loop"
    /\ UNCHANGED <<entry, oracle, n_data, K, r, r_main, qc, ip, st, counts,
                   shots_done, err, gs_calls>>

TDone ==
    /\ pc = "T_loop"
    /\ z = 8
    /\ pc' = "done"
    /\ UNCHANGED <<entry, oracle, n_data, K, r, r_main, z, qc, ip, st, log,
                   counts, shots_done, err, gs_calls>>

(***************************************************************************)
(* make_diffuser on the uniform superposition                              *)
(***************************************************************************)
DiffBuild ==
    /\ pc = "diff"
    /\ qc' = Compose([nq |-> n_data, ops |-> HLayer(n_data)],
                     make_diffuser(n_data), DataQubits(n_data))
    /\ st' = InitState(n_data)
    /\ ip' = 1
    /\ pc' = "D_run"
    /\ UNCHANGED <<entry, oracle, n_data, K, r, r_main, z, log, counts,
                   shots_done, err, gs_calls>>

DiffDone ==
    /\ pc = "D_run"
    /\ Finished
    /\ pc' = "done"
    /\ UNCHANGED <<entry, oracle, n_data, K, r, r_main, z, qc, ip, st, log,
                   counts, shots_done, err, gs_calls>>

Next ==
    \/ Step
    \/ MainStart \/ KBuild \/ KRead \/ KReturn \/ MainAfterK \/ MainReport
    \/ GSCheck \/ GSBuild \/ GSSample \/ GSReturn
    \/ TBuild \/ TRead \/ TDone
    \/ DiffBuild \/ DiffDone

Spec == Init /\ [][Next]_vars


(***************************************************************************)
(* Properties.                                                             *)
(***************************************************************************)
RECURSIVE SumSqTo(_, _)
SumSqTo(a, i) == IF i < 0 THEN 0 ELSE a[i] * a[i] + SumSqTo(a, i - 1)
SumSq(a) == SumSqTo(a, Cardinality(DOMAIN a) - 1)

\* the amplitude at idx is exactly -1, or exactly +1
AmpIsMinusOne(s, idx) == s.a[idx] < 0 /\ s.a[idx] * s.a[idx] = Pow2(s.h)
AmpIsPlusOne(s, idx) == s.a[idx] > 0 /\ s.a[idx] * s.a[idx] = Pow2(s.h)

Marked101_110 == { <<1, 0, 1>>, <<1, 1, 0>> }

\* a run of the fixed oracle on the basis state |z>, ancilla |0>, is over
OracleRunOver ==
    /\ oracle = makeOracle
    /\ Finished
    /\ \/ entry = "tests" /\ pc = "T_run"
       \/ entry = "main" /\ pc = "K_run"

\* C1: for every z in 0..7 the oracle run on |z> (data bits little-endian,
\* ancilla |0>) ends with amplitude -1 at index z when z2 z1 z0 is 101 or
\* 110, and with amplitude +1 for the other six z.
C1_OracleSigns ==
    OracleRunOver =>
        /\ z \in 0..7
        /\ \A i \in 0..2 : Bit(z, i) = (IF XGate(i) \in
                                {qc.ops[k] : k \in 1..(Len(qc.ops) - Len(oracle.ops))}
                                THEN 1 ELSE 0)
        /\ IF z \in {5, 6}
           THEN AmpIsMinusOne(st, z)
           ELSE AmpIsPlusOne(st, z)
        /\ (z \in {5, 6}) <=> (bits(z, 3) \in Marked101_110)

C1_Witness ==
    /\ OracleRunOver
    /\ entry = "tests"
    /\ z = 5
    /\ AmpIsMinusOne(st, 5)

PopCount(zz, n) == Cardinality({i \in 0..(n - 1) : Bit(zz, i) = 1})

KRecords == SelectSeq(log, LAMBDA rec : rec.tag = "K")

\* C2: on the fixed oracle with n_data = 3 the classical counter visits
\* z = 0, 1, .., 7 once each, every one on a fresh 4-qubit circuit holding
\* only the preparation of |z> and the oracle, counts exactly the z with
\* spec(z) = 1, and returns K = 2.
C2_CounterExact ==
    (entry = "main" /\ oracle = makeOracle) =>
        /\ pc \in {"K_loop", "K_run", "main_after_K"} =>
              /\ K = Cardinality({zz \in 0..(z - 1) : SpecPredicate(zz)})
              /\ Len(KRecords) = z
              /\ \A i \in 1..z :
                    /\ KRecords[i].z = bits(i - 1, n_data)
                    /\ KRecords[i].unsafe = SpecPredicate(i - 1)
        /\ pc = "K_run" =>
              /\ qc.nq = n_data + 1
              /\ Len(qc.ops) = PopCount(z, n_data) + Len(oracle.ops)
              /\ Cardinality(DOMAIN st.a) = Pow2(n_data + 1)
        /\ pc = "main_after_K" => (z = 8 /\ K = 2)

C2_Witness ==
    /\ entry = "main"
    /\ oracle = makeOracle
    /\ pc = "main_after_K"
    /\ K = 2
    /\ Len(KRecords) = 8

MainCounted == entry = "main" /\ pc \notin {"main", "K_loop", "K_run", "main_after_K"}

\* C3: when the counter of main returns K = 0 the run ends successfully
\* with no call of grover_search, and every call of grover_search that main
\* makes passes K >= 1.
C3_NoSearchWithoutMarked ==
    entry = "main" =>
        /\ \A i \in 1..Len(gs_calls) : gs_calls[i] >= 1
        /\ pc = "gs_check" => K >= 1
        /\ (MainCounted /\ K = 0) =>
              /\ pc = "done"
              /\ err = "none"
              /\ gs_calls = <<>>
              /\ counts = NoCounts

C3_Witness ==
    /\ MainCounted
    /\ K = 0
    /\ pc = "done"
    /\ gs_calls = <<>>
    /\ log[Len(log)].tag = "AllSafe"

\* C4: a direct call of grover_search with K <= 0 raises the ValueError of
\* line 109 with no circuit built, no state simulated, no shot sampled,
\* nothing logged and no counts returned.
C4_InvalidCountRaises ==
    (entry = "grover_search" /\ K <= 0 /\ pc # "gs_check") =>
        /\ pc = "raised"
        /\ err = "ValueError: K must be >= 1 for Grover search."
        /\ qc = NoCircuit
        /\ st = InitState(0)
        /\ shots_done = 0
        /\ counts = NoCounts
        /\ log = <<>>

C4_Witness ==
    /\ entry = "grover_search"
    /\ K = 0
    /\ pc = "raised"
    /\ err = "ValueError: K must be >= 1 for Grover search."

\* grover_search has computed its r (line 111)
IterationCountKnown ==
    /\ entry \in {"main", "grover_search"}
    /\ Len(gs_calls) > 0
    /\ pc # "gs_check"
    /\ K >= 1

AtMeasurement ==
    /\ pc = "gs_run"
    /\ ~Finished
    /\ qc.ops[ip].kind = "measure"

\* C6: in the run of main on the fixed oracle (n_data = 3, K = 2, r = 1) the
\* outcomes 101 and 110 each have probability above 1/8 in the final state
\* and every other outcome has a smaller probability than either.
C6_MarkedOutcomesOnTop ==
    (entry = "main" /\ oracle = makeOracle /\ AtMeasurement) =>
        /\ n_data = 3 /\ K = 2 /\ r = 1
        /\ \A d \in 0..7 :
              CountsKey(qc, 3, d) \in Marked101_110 =>
                 /\ 8 * ProbNum(st, 3, d) > Pow2(st.h)
                 /\ \A e \in 0..7 :
                       CountsKey(qc, 3, e) \notin Marked101_110 =>
                          ProbNum(st, 3, e) < ProbNum(st, 3, d)
        /\ Cardinality({d \in 0..7 : CountsKey(qc, 3, d) \in Marked101_110}) = 2

C6_Witness ==
    /\ entry = "main"
    /\ oracle = makeOracle
    /\ AtMeasurement
    /\ shots_done = Shots
    /\ DOMAIN counts \subseteq Marked101_110

\* C7: make_diffuser(n) applied to the uniform superposition of n qubits
\* leaves all 2^n amplitudes equal to one another, for every n >= 1.
C7_DiffuserKeepsUniform ==
    (entry = "make_diffuser" /\ pc = "done") =>
        \A i, j \in DOMAIN st.a : st.a[i] = st.a[j]

\* C8: after every gate of every circuit that is run the squared amplitudes
\* sum to 1.
C8_Normalised == SumSq(st.a) = Pow2(st.h)

C8_Witness ==
    /\ pc = "gs_run"
    /\ oracle = makeOracle
    /\ ip > 1
    /\ qc.ops[ip - 1].kind = "mcx"
    /\ st.h > 0

OracleLen == Len(oracle.ops)
DiffuserLen == Len(make_diffuser(n_data).ops)
RoundLen == OracleLen + DiffuserLen

\* C9: the circuit grover_search builds is H on data qubits 0..n-1, then r
\* rounds of the oracle (on its own qubit numbers: data, then the ancilla n)
\* followed by the diffuser on the data qubits, then the measurement of
\* data qubit i into classical bit i; the ancilla is in no diffuser gate and
\* in no measurement.
C9_CircuitShape ==
    (pc = "gs_run") =>
        /\ qc.nq = n_data + 1
        /\ Len(qc.ops) = n_data + r * RoundLen + n_data
        /\ \A i \in 1..n_data : qc.ops[i] = HGate(i - 1)
        /\ \A k \in 0..(r - 1) :
              /\ \A j \in 1..OracleLen :
                    qc.ops[n_data + k * RoundLen + j] = oracle.ops[j]
              /\ \A j \in 1..DiffuserLen :
                    LET g == qc.ops[n_data + k * RoundLen + OracleLen + j]
                    IN  /\ g = make_diffuser(n_data).ops[j]
                        /\ \A m \in 1..Len(g.q) : g.q[m] # n_data
        /\ \A i \in 1..n_data :
              qc.ops[n_data + r * RoundLen + i] = Measure(i - 1, i - 1)
        /\ \A i \in 1..Len(qc.ops) :
              qc.ops[i].kind = "measure" =>
                 (i > n_data + r * RoundLen /\ qc.ops[i].q[1] # n_data)

C9_Witness ==
    /\ pc = "gs_run"
    /\ r = 2
    /\ oracle = makeOracle
    /\ qc.ops[n_data + RoundLen + 1] = XGate(3)

\* the gates run so far end with the H layer, an oracle or a diffuser
AtRoundBoundary ==
    /\ pc = "gs_run"
    /\ \E k \in 0..r :
          \/ ip - 1 = n_data + k * RoundLen
          \/ k < r /\ ip - 1 = n_data + k * RoundLen + OracleLen

AncillaZero == \A i \in DOMAIN st.a : Bit(i, n_data) = 1 => st.a[i] = 0

\* C10: in the circuit of grover_search the ancilla is |0> after the H
\* layer, after every oracle, after every diffuser and at measurement.
C10_AncillaRestored == AtRoundBoundary => AncillaZero

C10_Witness ==
    /\ pc = "gs_run"
    /\ oracle = makeOracle
    /\ r = 2
    /\ ip - 1 = n_data + RoundLen + OracleLen
    /\ Cardinality({i \in DOMAIN st.a : st.a[i] # 0}) > 1
    /\ AncillaZero

====
